---- MODULE Spec2Model ----
(***************************************************************************)
(* removeApplicants (src/src/App.tsx): filter the lines of a chatlog by a  *)
(* search pattern, sort them by time of day, infer day offsets, keep one   *)
(* line per content and emit the survivors ordered by resolved timestamp.  *)
(*                                                                         *)
(* Strings are sequences of one-character strings.  Times are counted in   *)
(* seconds (the code counts milliseconds; every value it builds is a whole *)
(* number of seconds, setHours(h, m, s, 0)).                               *)
(***************************************************************************)
EXTENDS Integers, Sequences, FiniteSets, TLC

VARIABLES chatlog, searchParameter, pc, lines, i, parsedLines, item,
          uniqueLinesMap, currentDayOffset, lastTimeOfDayValue, resolved,
          sortableItems, result, round, firstResult, chatlogValue,
          applicantValue, applicantError, chatlogError, copyCalls, clicks

vars == <<chatlog, searchParameter, pc, lines, i, parsedLines, item,
          uniqueLinesMap, currentDayOffset, lastTimeOfDayValue, resolved,
          sortableItems, result, round, firstResult, chatlogValue,
          applicantValue, applicantError, chatlogError, copyCalls, clicks>>

\* the state of the App component besides the chatlog text, and the clicks
\* on the copy button so far
appState == <<applicantValue, applicantError, chatlogError, copyCalls, clicks>>

\* the locals of a call of removeApplicants
callState == <<pc, lines, i, parsedLines, item, uniqueLinesMap,
               currentDayOffset, lastTimeOfDayValue, resolved, sortableItems,
               result, round, firstResult>>

(* ------------------------------ bounds --------------------------------- *)
\* lines of a generated chatlog
MaxLines == 3
\* successive calls, each on the previous call's output
MaxRounds == 2
\* clicks on the copy button
MaxClicks == 2

(* ----------------------------- characters ------------------------------ *)
Digits == {"0", "1", "2", "3", "4", "5", "6", "7", "8", "9"}

DigitVal(c) ==
    CASE c = "0" -> 0 [] c = "1" -> 1 [] c = "2" -> 2 [] c = "3" -> 3
      [] c = "4" -> 4 [] c = "5" -> 5 [] c = "6" -> 6 [] c = "7" -> 7
      [] c = "8" -> 8 [] c = "9" -> 9

\* String.prototype.trim and \s: the white space of the modelled alphabet
WhiteSpace == {" ", "\t", "\n", "\r"}

\* the characters "." does not match
LineTerminators == {"\n", "\r"}

\* case folding of the 'i' flag, for the letters of the modelled alphabet
Lower(c) ==
    CASE c = "A" -> "a" [] c = "B" -> "b" [] c = "C" -> "c" [] c = "H" -> "h"
      [] c = "X" -> "x" [] c = "Y" -> "y"
      [] OTHER -> c

(* ------------------------------- strings ------------------------------- *)
\* trimmedLine = line.trim()
Trim(s) ==
    LET keep == {n \in 1..Len(s) : s[n] \notin WhiteSpace}
    IN  IF keep = {} THEN <<>>
        ELSE LET lo == CHOOSE n \in keep : \A m \in keep : n <= m
                 hi == CHOOSE n \in keep : \A m \in keep : n >= m
             IN  SubSeq(s, lo, hi)

\* chatlog.split('\n'): the empty string splits into one empty line
RECURSIVE Split(_)
Split(s) ==
    LET nl == {n \in 1..Len(s) : s[n] = "\n"}
    IN  IF nl = {} THEN <<s>>
        ELSE LET first == CHOOSE n \in nl : \A m \in nl : n <= m
             IN  <<SubSeq(s, 1, first - 1)>> \o Split(SubSeq(s, first + 1, Len(s)))

\* Array.prototype.join('\n')
RECURSIVE Join(_)
Join(ss) ==
    IF ss = <<>> THEN <<>>
    ELSE IF Len(ss) = 1 THEN ss[1]
    ELSE ss[1] \o <<"\n">> \o Join(Tail(ss))

(* ------------------------- the search pattern -------------------------- *)
\* The pattern language modelled: literal characters, "." and the openers
\* "(" and "[".  No closing character is in the alphabet, so an opener is
\* never terminated.
Openers == {"(", "["}

\* new RegExp(searchParameter, 'i') throws SyntaxError on an unterminated
\* group or character class
RegExpCompiles(p) == \A n \in 1..Len(p) : p[n] \notin Openers

\* one pattern character against one subject character, flag 'i'
AtomMatches(a, c) ==
    IF a = "." THEN c \notin LineTerminators ELSE Lower(a) = Lower(c)

\* a variant in which an empty pattern matches nothing
RegExpTestEmptyNever(p, s) ==
    /\ Len(p) > 0
    /\ \E start \in 0..(Len(s) - Len(p)) :
          \A n \in 1..Len(p) : AtomMatches(p[n], s[start + n])

\* a variant that lets every line through
RegExpTestAlways(p, s) == TRUE

\* includesRegex.test(trimmedLine): an unanchored search
RegExpTest(p, s) ==
    \E start \in 0..(Len(s) - Len(p)) :
        \A n \in 1..Len(p) : AtomMatches(p[n], s[start + n])

(* -------------------------- the timestamp marker ----------------------- *)
\* a variant that accepts only fields of the calendar range
MatchesTimestampInRange(s) ==
    /\ Len(s) >= 10
    /\ s[1] = "[" /\ s[4] = ":" /\ s[7] = ":" /\ s[10] = "]"
    /\ \A n \in {2, 3, 5, 6, 8, 9} : s[n] \in Digits
    /\ 10 * DigitVal(s[2]) + DigitVal(s[3]) < 24
    /\ 10 * DigitVal(s[5]) + DigitVal(s[6]) < 60
    /\ 10 * DigitVal(s[8]) + DigitVal(s[9]) < 60

\* timestampRegex = /^\[(\d{2}):(\d{2}):(\d{2})\]\s*(.*)/
MatchesTimestamp(s) ==
    /\ Len(s) >= 10
    /\ s[1] = "[" /\ s[4] = ":" /\ s[7] = ":" /\ s[10] = "]"
    /\ \A n \in {2, 3, 5, 6, 8, 9} : s[n] \in Digits

\* parseInt of a two-digit capture, radix 10
ParseInt2(s, n) == 10 * DigitVal(s[n]) + DigitVal(s[n + 1])

\* timestampParts: <<hours, minutes, seconds>>, or <<>> for null
TimestampParts(s) ==
    IF MatchesTimestamp(s)
    THEN <<ParseInt2(s, 2), ParseInt2(s, 5), ParseInt2(s, 8)>>
    ELSE <<>>

\* match[4]: what follows the marker after the greedy \s*, up to a line
\* terminator
Capture4(s) ==
    LET rest  == SubSeq(s, 11, Len(s))
        black == {n \in 1..Len(rest) : rest[n] \notin WhiteSpace}
        from  == IF black = {} THEN Len(rest) + 1
                 ELSE CHOOSE n \in black : \A m \in black : n <= m
        body  == SubSeq(rest, from, Len(rest))
        stop  == {n \in 1..Len(body) : body[n] \in LineTerminators}
        upto  == IF stop = {} THEN Len(body)
                 ELSE (CHOOSE n \in stop : \A m \in stop : n <= m) - 1
    IN  SubSeq(body, 1, upto)

\* contentForDeduplication
ContentForDeduplication(s) ==
    IF MatchesTimestamp(s) THEN Trim(Capture4(s)) ELSE s

\* a variant that stores the content without the marker as the full line
ParsedLineContentOnly(trimmedLine, index) ==
    [fullLine |-> ContentForDeduplication(trimmedLine),
     contentForDeduplication |-> ContentForDeduplication(trimmedLine),
     timestampParts |-> TimestampParts(trimmedLine),
     originalIndex |-> index]

\* the ParsedLine pushed for a line that passes the filter
ParsedLine(trimmedLine, index) ==
    [fullLine |-> trimmedLine,
     contentForDeduplication |-> ContentForDeduplication(trimmedLine),
     timestampParts |-> TimestampParts(trimmedLine),
     originalIndex |-> index]

(* ------------------------- Pass 1: the pre-sort ------------------------ *)
\* a variant with the operands of the input-order tie-break swapped
CompareParsedTiesReversed(a, b) ==
    IF a.timestampParts = <<>> /\ b.timestampParts = <<>>
    THEN b.originalIndex - a.originalIndex
    ELSE IF a.timestampParts = <<>> THEN -1
    ELSE IF b.timestampParts = <<>> THEN 1
    ELSE IF a.timestampParts[1] # b.timestampParts[1]
         THEN a.timestampParts[1] - b.timestampParts[1]
    ELSE IF a.timestampParts[2] # b.timestampParts[2]
         THEN a.timestampParts[2] - b.timestampParts[2]
    ELSE IF a.timestampParts[3] # b.timestampParts[3]
         THEN a.timestampParts[3] - b.timestampParts[3]
    ELSE b.originalIndex - a.originalIndex

\* the comparator of parsedLines.sort: lines without a timestamp first, in
\* input order; then by hours, minutes, seconds; then by input order
CompareParsed(a, b) ==
    IF a.timestampParts = <<>> /\ b.timestampParts = <<>>
    THEN a.originalIndex - b.originalIndex
    ELSE IF a.timestampParts = <<>> THEN -1
    ELSE IF b.timestampParts = <<>> THEN 1
    ELSE IF a.timestampParts[1] # b.timestampParts[1]
         THEN a.timestampParts[1] - b.timestampParts[1]
    ELSE IF a.timestampParts[2] # b.timestampParts[2]
         THEN a.timestampParts[2] - b.timestampParts[2]
    ELSE IF a.timestampParts[3] # b.timestampParts[3]
         THEN a.timestampParts[3] - b.timestampParts[3]
    ELSE a.originalIndex - b.originalIndex

\* Array.prototype.sort is stable: an element goes right after the last
\* element that does not compare greater than it
InsertParsed(sorted, x) ==
    LET le == {n \in 1..Len(sorted) : CompareParsed(sorted[n], x) <= 0}
        at == IF le = {} THEN 0 ELSE CHOOSE n \in le : \A m \in le : n >= m
    IN  SubSeq(sorted, 1, at) \o <<x>> \o SubSeq(sorted, at + 1, Len(sorted))

RECURSIVE SortParsedFrom(_, _)
SortParsedFrom(sorted, rest) ==
    IF rest = <<>> THEN sorted
    ELSE SortParsedFrom(InsertParsed(sorted, Head(rest)), Tail(rest))

\* a variant that leaves the parsed lines in input order
SortParsedKeepsInputOrder(ps) == ps

\* parsedLines.sort((a, b) => ...)
SortParsed(ps) == SortParsedFrom(<<>>, ps)

(* ---------------------- Pass 2: times and the map ---------------------- *)
\* lastTimeOfDayValue = null
Null == -1

\* new Date('2000-01-01T00:00:00').getTime(), in seconds, read as UTC
BaseDate == 946684800

\* new Date(0).getTime()
Epoch == 0

\* 24 * 60 * 60 * 1000 ms
DayLength == 24 * 60 * 60

\* setHours(hours, minutes, seconds, 0) on the base date, then getTime():
\* fields beyond their range carry over
TimeOfDayValue(parts) == BaseDate + parts[1] * 3600 + parts[2] * 60 + parts[3]

\* a variant that also counts an equal time of day as a new day
RolloverOnEqual(last, current) == last # Null /\ current <= last

\* "time has gone backward, so it's a new day"
Rollover(last, current) == last # Null /\ current < last

\* a variant that never finds a key
MapHasNever(m, key) == FALSE

\* uniqueLinesMap: a Map keeps its keys in insertion order; a sequence of
\* [key, fullLine, timestamp]
MapHas(m, key) == \E n \in 1..Len(m) : m[n].key = key

MapGet(m, key) == m[CHOOSE n \in 1..Len(m) : m[n].key = key]

\* Map.prototype.set: a present key keeps its position
MapSet(m, key, value) ==
    IF MapHas(m, key)
    THEN [n \in 1..Len(m) |->
             IF m[n].key = key
             THEN [key |-> key, fullLine |-> value.fullLine, timestamp |-> value.timestamp]
             ELSE m[n]]
    ELSE Append(m, [key |-> key, fullLine |-> value.fullLine, timestamp |-> value.timestamp])

\* a variant with the comparison turned around
KeepsLater(retained, finalTimestamp) == retained < finalTimestamp

\* uniqueLinesMap.get(key).timestamp > finalTimestamp
KeepsEarlier(retained, finalTimestamp) == retained > finalTimestamp

(* ------------------------ Pass 3: the final sort ----------------------- *)
\* a variant with the operands swapped
CompareItemsDescending(a, b) == b.timestamp - a.timestamp

\* (a, b) => a.timestamp.getTime() - b.timestamp.getTime()
CompareItems(a, b) == a.timestamp - b.timestamp

InsertItem(sorted, x) ==
    LET le == {n \in 1..Len(sorted) : CompareItems(sorted[n], x) <= 0}
        at == IF le = {} THEN 0 ELSE CHOOSE n \in le : \A m \in le : n >= m
    IN  SubSeq(sorted, 1, at) \o <<x>> \o SubSeq(sorted, at + 1, Len(sorted))

RECURSIVE SortItemsFrom(_, _)
SortItemsFrom(sorted, rest) ==
    IF rest = <<>> THEN sorted
    ELSE SortItemsFrom(InsertItem(sorted, Head(rest)), Tail(rest))

\* sortableItems.sort((a, b) => ...)
SortItems(items) == SortItemsFrom(<<>>, items)

\* Array.from(uniqueLinesMap.values())
MapValues(m) ==
    [n \in 1..Len(m) |-> [fullLine |-> m[n].fullLine, timestamp |-> m[n].timestamp]]

\* sortableItems.map(item => item.fullLine)
FullLines(items) == [n \in 1..Len(items) |-> items[n].fullLine]

(* ------------------------------- inputs -------------------------------- *)
\* the marker "[ab:cd:ef]"
Stamp(a, b, c, d, e, f) == <<"[", a, b, ":", c, d, ":", e, f, "]">>

BobX == <<"B", "o", "b", ":", " ", "x">>
BobY == <<"b", "o", "b", " ", "y">>
BobHi == <<"B", "o", "b", ":", " ", "h", "i">>
Carol == <<"C", "a", "r", "o", "l">>
NoTimestampHere ==
    <<"n", "o", " ", "t", "i", "m", "e", "s", "t", "a", "m", "p", " ",
      "h", "e", "r", "e">>

\* the lines generated chatlogs are made of
LinePool ==
    { Stamp("2", "3", "5", "9", "5", "9") \o <<" ">> \o BobX,
      Stamp("0", "0", "9", "9", "0", "0") \o <<" ">> \o BobX,
      <<" ">> \o Stamp("0", "1", "0", "0", "0", "0") \o <<" ", " ">> \o BobX \o <<" ">>,
      Stamp("0", "0", "6", "0", "0", "0") \o BobX,
      Stamp("0", "0", "6", "1", "0", "0") \o <<" ">> \o BobY,
      BobX,
      BobY \o <<"\t">>,
      <<" ">> \o Carol,
      <<" ">> }

GeneratedChatlogs ==
    {Join(ls) : ls \in UNION {[1..n -> LinePool] : n \in 0..MaxLines}}

\* the chatlogs of the documented scenarios
ScenarioChatlogs ==
    { Stamp("0", "9", "0", "0", "0", "0") \o <<" ">> \o BobX \o <<"\n">>
        \o Stamp("0", "8", "0", "0", "0", "0") \o <<" ">> \o BobX,
      NoTimestampHere \o <<"\n">>
        \o Stamp("0", "1", "0", "0", "0", "0") \o <<" ">> \o BobHi,
      Stamp("2", "3", "5", "9", "5", "9") \o <<" ">> \o BobX \o <<"\n">>
        \o Stamp("0", "0", "0", "0", "0", "1") \o <<" ">> \o BobY,
      Stamp("0", "0", "0", "0", "0", "1") \o <<" ">> \o BobY \o <<"\n">>
        \o Stamp("2", "3", "5", "9", "5", "9") \o <<" ">> \o BobX,
      Stamp("9", "9", "6", "1", "0", "7") \o <<" ">> \o BobY \o <<"\n">>
        \o Stamp("2", "3", "5", "9", "5", "9") \o <<" ">> \o BobX }

Chatlogs == GeneratedChatlogs \cup ScenarioChatlogs

Bob == <<"b", "o", "b">>

SearchParameters ==
    { Bob, <<>>, <<"b", ".", "b">>, <<"(", "b">>, <<"[">> }

(* --------------------------- removeApplicants -------------------------- *)
\* useState<string | null>(null)
NoError == "null"

Init ==
    /\ chatlogValue \in Chatlogs
    /\ chatlog = chatlogValue
    /\ applicantValue \in SearchParameters
    /\ searchParameter = applicantValue
    /\ applicantError = NoError
    /\ chatlogError = NoError
    /\ copyCalls = 0
    /\ clicks = 0
    /\ pc = "start"
    /\ lines = <<>>
    /\ i = 0
    /\ parsedLines = <<>>
    /\ item = 0
    /\ uniqueLinesMap = <<>>
    /\ currentDayOffset = 0
    /\ lastTimeOfDayValue = Null
    /\ resolved = <<>>
    /\ sortableItems = <<>>
    /\ result = <<>>
    /\ round = 1
    /\ firstResult = <<>>

\* lines 12-24: split the chatlog and compile the pattern, which throws
\* on a pattern that does not compile
Enter ==
    /\ pc = "start"
    /\ lines' = Split(chatlog)
    /\ pc' = IF RegExpCompiles(searchParameter) THEN "pass1" ELSE "threw"
    /\ i' = 0
    /\ parsedLines' = <<>>
    /\ UNCHANGED <<chatlog, searchParameter, item, uniqueLinesMap,
                   currentDayOffset, lastTimeOfDayValue, resolved,
                   sortableItems, result, round, firstResult, chatlogValue>>
    /\ UNCHANGED appState

\* lines 27-59: one iteration of the parse-and-filter loop
Pass1Step ==
    /\ pc = "pass1"
    /\ i < Len(lines)
    /\ LET trimmedLine == Trim(lines[i + 1])
       IN  parsedLines' =
             IF trimmedLine = <<>> THEN parsedLines
             ELSE IF ~RegExpTest(searchParameter, trimmedLine) THEN parsedLines
             ELSE Append(parsedLines, ParsedLine(trimmedLine, i))
    /\ i' = i + 1
    /\ UNCHANGED <<chatlog, searchParameter, pc, lines, item, uniqueLinesMap,
                   currentDayOffset, lastTimeOfDayValue, resolved,
                   sortableItems, result, round, firstResult, chatlogValue>>
    /\ UNCHANGED appState

\* lines 63-87: the loop is over; sort the parsed lines by time of day and
\* set up the second pass
SortParsedLines ==
    /\ pc = "pass1"
    /\ i >= Len(lines)
    /\ parsedLines' = SortParsed(parsedLines)
    /\ uniqueLinesMap' = <<>>
    /\ currentDayOffset' = 0
    /\ lastTimeOfDayValue' = Null
    /\ resolved' = <<>>
    /\ item' = 0
    /\ pc' = "pass2"
    /\ UNCHANGED <<chatlog, searchParameter, lines, i, sortableItems, result,
                   round, firstResult, chatlogValue>>
    /\ UNCHANGED appState

\* lines 89-122: one iteration of the inference-and-deduplication loop
Pass2Step ==
    /\ pc = "pass2"
    /\ item < Len(parsedLines)
    /\ LET it == parsedLines[item + 1]
           timed == it.timestampParts # <<>>
           currentTimeOfDayValue ==
               IF timed THEN TimeOfDayValue(it.timestampParts) ELSE Null
           offset ==
               IF ~timed THEN 0
               ELSE IF Rollover(lastTimeOfDayValue, currentTimeOfDayValue)
                    THEN currentDayOffset + 1
               ELSE currentDayOffset
           finalTimestamp ==
               IF timed THEN currentTimeOfDayValue + offset * DayLength
               ELSE Epoch
       IN  /\ currentDayOffset' = offset
           /\ lastTimeOfDayValue' = currentTimeOfDayValue
           /\ resolved' = Append(resolved, finalTimestamp)
           /\ uniqueLinesMap' =
                IF \/ ~MapHas(uniqueLinesMap, it.contentForDeduplication)
                   \/ KeepsEarlier(
                        MapGet(uniqueLinesMap, it.contentForDeduplication).timestamp,
                        finalTimestamp)
                THEN MapSet(uniqueLinesMap, it.contentForDeduplication,
                            [fullLine |-> it.fullLine, timestamp |-> finalTimestamp])
                ELSE uniqueLinesMap
    /\ item' = item + 1
    /\ UNCHANGED <<chatlog, searchParameter, pc, lines, i, parsedLines,
                   sortableItems, result, round, firstResult, chatlogValue>>
    /\ UNCHANGED appState

\* lines 125-129: sort the retained entries by timestamp and join them
Pass3 ==
    /\ pc = "pass2"
    /\ item >= Len(parsedLines)
    /\ sortableItems' = SortItems(MapValues(uniqueLinesMap))
    /\ result' = Join(FullLines(SortItems(MapValues(uniqueLinesMap))))
    /\ pc' = "done"
    /\ UNCHANGED <<chatlog, searchParameter, lines, i, parsedLines, item,
                   uniqueLinesMap, currentDayOffset, lastTimeOfDayValue,
                   resolved, round, firstResult, chatlogValue>>
    /\ UNCHANGED appState

\* the returned text is given back as the chatlog, with the same pattern
Reinvoke ==
    /\ pc = "done"
    /\ round < MaxRounds
    /\ chatlog' = result
    /\ firstResult' = IF round = 1 THEN result ELSE firstResult
    /\ round' = round + 1
    /\ pc' = "start"
    /\ lines' = <<>>
    /\ i' = 0
    /\ parsedLines' = <<>>
    /\ item' = 0
    /\ uniqueLinesMap' = <<>>
    /\ currentDayOffset' = 0
    /\ lastTimeOfDayValue' = Null
    /\ resolved' = <<>>
    /\ sortableItems' = <<>>
    /\ result' = <<>>
    /\ UNCHANGED <<searchParameter, chatlogValue>>
    /\ UNCHANGED appState

Next ==
    \/ Enter
    \/ Pass1Step
    \/ SortParsedLines
    \/ Pass2Step
    \/ Pass3
    \/ Reinvoke

Spec == Init /\ [][Next]_vars

(* ------------------------------ the App -------------------------------- *)
\* what is typed into the applicant field and into the chatlog field
ApplicantInputs == SearchParameters \cup {<<" ">>}

ChatlogInputs ==
    { <<>>,
      <<" ", "\n", "\t">>,
      BobX,
      NoTimestampHere \o <<"\n">>
        \o Stamp("0", "1", "0", "0", "0", "0") \o <<" ">> \o BobHi }

ApplicantErrorMessage == "Applicant name cannot be empty."

ChatlogErrorMessage == "Chatlog cannot be empty."

\* !value.trim()
IsBlank(value) == Trim(value) = <<>>

\* line 140: every render calls removeApplicants(chatlogValue,
\* applicantValue); a pattern that does not compile throws out of the
\* render and takes the component, with its handlers, away
Rendered == RegExpCompiles(applicantValue)

\* lines 132-140: the component as first rendered, no call under way
InitApp ==
    /\ applicantValue = <<>>
    /\ chatlogValue = <<>>
    /\ applicantError = NoError
    /\ chatlogError = NoError
    /\ copyCalls = 0
    /\ clicks = 0
    /\ chatlog = <<>>
    /\ searchParameter = <<>>
    /\ pc = "start"
    /\ lines = <<>>
    /\ i = 0
    /\ parsedLines = <<>>
    /\ item = 0
    /\ uniqueLinesMap = <<>>
    /\ currentDayOffset = 0
    /\ lastTimeOfDayValue = Null
    /\ resolved = <<>>
    /\ sortableItems = <<>>
    /\ result = <<>>
    /\ round = 1
    /\ firstResult = <<>>

\* lines 175-178: onChange of the applicant field
ApplicantChange ==
    /\ Rendered
    /\ \E value \in ApplicantInputs :
          /\ applicantValue' = value
          /\ searchParameter' = value
    /\ applicantError' = NoError
    /\ UNCHANGED <<chatlogValue, chatlog, chatlogError, copyCalls, clicks>>
    /\ UNCHANGED callState

\* lines 195-198: onChange of the chatlog field
ChatlogChange ==
    /\ Rendered
    /\ \E value \in ChatlogInputs :
          /\ chatlogValue' = value
          /\ chatlog' = value
    /\ chatlogError' = NoError
    /\ UNCHANGED <<applicantValue, searchParameter, applicantError, copyCalls, clicks>>
    /\ UNCHANGED callState

\* a variant that calls the copy function outside the test of hasError
HandleCopyClickAlwaysCopies ==
    /\ Rendered
    /\ clicks < MaxClicks
    /\ clicks' = clicks + 1
    /\ applicantError' =
         IF IsBlank(applicantValue) THEN ApplicantErrorMessage ELSE NoError
    /\ chatlogError' =
         IF IsBlank(chatlogValue) THEN ChatlogErrorMessage ELSE NoError
    /\ copyCalls' = copyCalls + 1
    /\ UNCHANGED <<applicantValue, chatlogValue, chatlog, searchParameter>>
    /\ UNCHANGED callState

\* lines 142-162: handleCopyClick(copy), from the button's onClick
HandleCopyClick ==
    /\ Rendered
    /\ clicks < MaxClicks
    /\ clicks' = clicks + 1
    /\ applicantError' =
         IF IsBlank(applicantValue) THEN ApplicantErrorMessage ELSE NoError
    /\ chatlogError' =
         IF IsBlank(chatlogValue) THEN ChatlogErrorMessage ELSE NoError
    /\ copyCalls' =
         IF IsBlank(applicantValue) \/ IsBlank(chatlogValue)
         THEN copyCalls
         ELSE copyCalls + 1
    /\ UNCHANGED <<applicantValue, chatlogValue, chatlog, searchParameter>>
    /\ UNCHANGED callState

NextApp ==
    \/ ApplicantChange
    \/ ChatlogChange
    \/ HandleCopyClick

SpecApp == InitApp /\ [][NextApp]_vars

(* ----------------------- vocabulary of the claims ---------------------- *)
\* the call has returned
Returned == pc = "done"

\* the call is over, one way or the other
Over == pc \in {"done", "threw"}

\* the lines of the returned text
OutputLines == FullLines(sortableItems)

\* s contains t, letter case aside, read literally
ContainsIgnoringCase(s, t) ==
    \E start \in 0..(Len(s) - Len(t)) :
        \A n \in 1..Len(t) : Lower(t[n]) = Lower(s[start + n])

\* the input lines that are not blank and contain the filter term
MatchingInputLines ==
    {n \in 1..Len(Split(chatlog)) :
        /\ Trim(Split(chatlog)[n]) # <<>>
        /\ ContainsIgnoringCase(Trim(Split(chatlog)[n]), searchParameter)}

NonBlankInputLines ==
    {n \in 1..Len(Split(chatlog)) : Trim(Split(chatlog)[n]) # <<>>}

\* the filtered lines, by their place in parsedLines
Filtered == 1..Len(parsedLines)

KeyOf(n) == parsedLines[n].contentForDeduplication

SharingKey(n) == {m \in Filtered : KeyOf(m) = KeyOf(n)}

\* seconds after the start of the base day
SecondsOfDay(parts) == parts[1] * 3600 + parts[2] * 60 + parts[3]

\* hours, then minutes, then seconds, field by field
FieldsBefore(p, q) ==
    \/ p[1] < q[1]
    \/ p[1] = q[1] /\ p[2] < q[2]
    \/ p[1] = q[1] /\ p[2] = q[2] /\ p[3] < q[3]

\* the filtered line of a key with the earliest resolved timestamp, the
\* first of the input among equals
EarliestOf(n) ==
    CHOOSE b \in SharingKey(n) :
        \A m \in SharingKey(n) :
            \/ resolved[b] < resolved[m]
            \/ /\ resolved[b] = resolved[m]
               /\ parsedLines[b].originalIndex <= parsedLines[m].originalIndex

Scenario2 ==
    Stamp("0", "9", "0", "0", "0", "0") \o <<" ">> \o BobX \o <<"\n">>
      \o Stamp("0", "8", "0", "0", "0", "0") \o <<" ">> \o BobX

Scenario3 ==
    NoTimestampHere \o <<"\n">>
      \o Stamp("0", "1", "0", "0", "0", "0") \o <<" ">> \o BobHi

(* -------------------------------- claims ------------------------------- *)
\* C1 (as stated): the output has at most one line per dedup key, and the
\* line kept for a key is the filtered line with the earliest resolved
\* timestamp, the first of the input among those that share it.
C1_EarliestFirstInInputKept ==
    Returned =>
        \A n \in Filtered :
            /\ Cardinality({m \in 1..Len(OutputLines) :
                   ContentForDeduplication(OutputLines[m]) = KeyOf(n)}) <= 1
            /\ \A m \in 1..Len(OutputLines) :
                   ContentForDeduplication(OutputLines[m]) = KeyOf(n)
                       => OutputLines[m] = parsedLines[EarliestOf(n)].fullLine

\* C2 (as stated): a filtered line marked [00:00:01] that follows in the
\* input a filtered line marked [23:59:59] resolves to a strictly later
\* timestamp than it (the next day).
C2_MidnightRollsOver ==
    Returned =>
        \A a, b \in Filtered :
            /\ parsedLines[a].timestampParts = <<23, 59, 59>>
            /\ parsedLines[b].timestampParts = <<0, 0, 1>>
            /\ parsedLines[a].originalIndex < parsedLines[b].originalIndex
            => resolved[b] > resolved[a]

\* C3 (as stated): of two filtered lines with the same content and
\* different times of day, the later one first in the input, the output
\* has only the one with the earlier time of day.
C3_EarlierTimeOfDayKept ==
    Returned =>
        \A a, b \in Filtered :
            /\ SharingKey(a) = {a, b}
            /\ parsedLines[a].timestampParts # <<>>
            /\ parsedLines[b].timestampParts # <<>>
            /\ parsedLines[a].originalIndex < parsedLines[b].originalIndex
            /\ SecondsOfDay(parsedLines[a].timestampParts)
                 > SecondsOfDay(parsedLines[b].timestampParts)
            => /\ \E m \in 1..Len(OutputLines) : OutputLines[m] = parsedLines[b].fullLine
               /\ \A m \in 1..Len(OutputLines) : OutputLines[m] # parsedLines[a].fullLine

\* C3 (amended): of two filtered lines with the same content and different
\* marker fields, the output never has the one whose fields are larger
\* compared hours first, then minutes, then seconds, whatever their order
\* in the input, and has the other one when no further filtered line has
\* their content; '[09:00:00] Bob: x' then '[08:00:00] Bob: x' with filter
\* 'bob' yields exactly '[08:00:00] Bob: x'.
C3_SmallerFieldsKept ==
    Returned =>
        /\ \A a, b \in Filtered :
              /\ KeyOf(a) = KeyOf(b)
              /\ parsedLines[a].timestampParts # <<>>
              /\ parsedLines[b].timestampParts # <<>>
              /\ FieldsBefore(parsedLines[a].timestampParts, parsedLines[b].timestampParts)
              => /\ \A m \in 1..Len(OutputLines) : OutputLines[m] # parsedLines[b].fullLine
                 /\ SharingKey(a) = {a, b}
                      => \E m \in 1..Len(OutputLines) : OutputLines[m] = parsedLines[a].fullLine
        /\ chatlog = Scenario2 /\ searchParameter = Bob
              => result = Stamp("0", "8", "0", "0", "0", "0") \o <<" ">> \o BobX

\* C3 witness: a call has returned where two timed lines share their
\* content and the one with the smaller fields came second in the input
\* and has the later time of day.
C3_Witness ==
    /\ Returned
    /\ \E a, b \in Filtered :
          /\ SharingKey(a) = {a, b}
          /\ parsedLines[a].timestampParts # <<>>
          /\ parsedLines[b].timestampParts # <<>>
          /\ FieldsBefore(parsedLines[a].timestampParts, parsedLines[b].timestampParts)
          /\ parsedLines[a].originalIndex > parsedLines[b].originalIndex
          /\ SecondsOfDay(parsedLines[a].timestampParts)
               < SecondsOfDay(parsedLines[b].timestampParts)

\* C4 (as stated): for 'no timestamp here' then '[01:00:00] Bob: hi' and
\* filter 'bob' the output is 'no timestamp here' and then
\* '[01:00:00] Bob: hi'.
C4_UntimedLineComesFirst ==
    Returned /\ chatlog = Scenario3 /\ searchParameter = Bob
        => /\ Len(OutputLines) >= 2
           /\ OutputLines[1] = NoTimestampHere
           /\ OutputLines[2] = Stamp("0", "1", "0", "0", "0", "0") \o <<" ">> \o BobHi

\* C4 (amended): for that input the line 'no timestamp here' does not
\* contain 'bob' and is dropped: the output is exactly '[01:00:00] Bob: hi'.
C4_UntimedLineIsFilteredOut ==
    Returned /\ chatlog = Scenario3 /\ searchParameter = Bob
        => result = Stamp("0", "1", "0", "0", "0", "0") \o <<" ">> \o BobHi

\* C4 witness: the call on that input has returned.
C4_Witness ==
    Returned /\ chatlog = Scenario3 /\ searchParameter = Bob /\ Len(lines) = 2

\* C5 (as stated): the call never throws, whatever the filter term.
C5_NeverThrows == pc # "threw"

\* C6 (as stated): every output line is the trimmed text of a non-blank
\* input line that contains the filter term, letter case aside.
C6_OnlyLinesContainingTheTerm ==
    Returned =>
        \A m \in 1..Len(OutputLines) :
            \E n \in MatchingInputLines : Trim(Split(chatlog)[n]) = OutputLines[m]

\* C7: the resolved timestamps of adjacent output lines never decrease;
\* the timestamp of an output line is the one resolved for that line, and
\* the returned text is the output lines in that order.
C7_OutputIsChronological ==
    Returned =>
        /\ \A m \in 1..(Len(sortableItems) - 1) :
              sortableItems[m].timestamp <= sortableItems[m + 1].timestamp
        /\ \A m \in 1..Len(sortableItems) :
              \E n \in Filtered :
                  /\ parsedLines[n].fullLine = sortableItems[m].fullLine
                  /\ resolved[n] = sortableItems[m].timestamp
        /\ sortableItems # <<>> => Split(result) = OutputLines

\* C7 witness: an output with an untimed line, a line of the base day and a
\* line of the next day.
C7_Witness ==
    /\ Returned
    /\ Len(sortableItems) = 3
    /\ sortableItems[1].timestamp = Epoch
    /\ sortableItems[2].timestamp < BaseDate + DayLength
    /\ sortableItems[3].timestamp > BaseDate + DayLength

\* C8: a call on the output of a call, with the same filter term, returns
\* that output again.
C8_Idempotent ==
    Returned /\ round > 1 => result = firstResult

\* C8 witness: the second call has returned; the first one dropped a
\* duplicate and resolved a line with out-of-range fields to the next day.
C8_Witness ==
    /\ Returned
    /\ round = 2
    /\ \E n, m \in 1..Len(Split(chatlogValue)) :
          /\ Trim(Split(chatlogValue)[n]) # Trim(Split(chatlogValue)[m])
          /\ RegExpTest(searchParameter, Trim(Split(chatlogValue)[n]))
          /\ RegExpTest(searchParameter, Trim(Split(chatlogValue)[m]))
          /\ ContentForDeduplication(Trim(Split(chatlogValue)[n]))
               = ContentForDeduplication(Trim(Split(chatlogValue)[m]))
    /\ Len(sortableItems) = 2
    /\ sortableItems[2].timestamp > BaseDate + DayLength
    /\ parsedLines[1].timestampParts[2] > 59

\* C9 (as stated): with an empty filter term or an empty chatlog the call
\* returns the empty string (stated of the calls that return).
C9_EmptyInputsGiveEmptyOutput ==
    Returned /\ (searchParameter = <<>> \/ chatlog = <<>>) => result = <<>>

\* C9 (amended): nothing is validated.  With an empty filter term every
\* non-blank line passes the filter, so the call returns the empty string
\* exactly when the chatlog has no non-blank line; with an empty chatlog it
\* returns the empty string for every filter term that compiles as a
\* pattern, and throws for one that does not.
C9_EmptyTermKeepsEveryLine ==
    /\ Returned /\ searchParameter = <<>>
          => /\ Len(parsedLines) = Cardinality(NonBlankInputLines)
             /\ result = <<>> <=> NonBlankInputLines = {}
    /\ Over /\ chatlog = <<>>
          => IF RegExpCompiles(searchParameter)
             THEN pc = "done" /\ result = <<>>
             ELSE pc = "threw"

\* C9 witness: a call with an empty filter term has returned lines.
C9_Witness ==
    /\ Returned
    /\ searchParameter = <<>>
    /\ Len(OutputLines) >= 2
    /\ chatlog # result

\* C10 (as stated): when no non-blank line contains the filter term, the
\* call returns the empty string.
C10_NothingMatchingGivesEmptyOutput ==
    Over /\ MatchingInputLines = {} => pc = "done" /\ result = <<>>

\* the first filtered line, in input order, with the text of an output line
FirstInputIndexOf(text) ==
    LET same == {parsedLines[n].originalIndex :
                    n \in {k \in Filtered : parsedLines[k].fullLine = text}}
    IN  CHOOSE x \in same : \A y \in same : x <= y

\* C11: when no filtered line has a marker, every line resolves to the
\* epoch value, and the output is the distinct filtered lines, each once,
\* in the order of their first occurrence in the input.
C11_UntimedKeepInputOrder ==
    Returned /\ (\A n \in Filtered : parsedLines[n].timestampParts = <<>>)
        => /\ \A n \in Filtered : resolved[n] = Epoch
           /\ \A n \in Filtered :
                 Cardinality({m \in 1..Len(OutputLines) :
                                 OutputLines[m] = parsedLines[n].fullLine}) = 1
           /\ \A m \in 1..Len(OutputLines) :
                 \E n \in Filtered : parsedLines[n].fullLine = OutputLines[m]
           /\ \A m, k \in 1..Len(OutputLines) :
                 m < k => FirstInputIndexOf(OutputLines[m])
                            < FirstInputIndexOf(OutputLines[k])

\* C11 witness: a first call has returned two distinct lines without a
\* marker, out of three filtered lines without a marker.
C11_Witness ==
    /\ Returned
    /\ round = 1
    /\ \A n \in Filtered : parsedLines[n].timestampParts = <<>>
    /\ Len(parsedLines) = 3
    /\ Len(OutputLines) = 2

\* the text begins with "[dd:dd:dd]", read character by character
MarkerShaped(s) ==
    /\ Len(s) >= 10
    /\ s[1] = "[" /\ s[10] = "]" /\ s[4] = ":" /\ s[7] = ":"
    /\ {s[2], s[3], s[5], s[6], s[8], s[9]} \subseteq Digits

\* the two-digit number written at n
FieldAt(s, n) == 10 * DigitVal(s[n]) + DigitVal(s[n + 1])

FieldsOf(s) == <<FieldAt(s, 2), FieldAt(s, 5), FieldAt(s, 8)>>

\* a marker with an hour above 23 or a minute or second above 59
OutOfRange(s) ==
    /\ MarkerShaped(s)
    /\ FieldAt(s, 2) > 23 \/ FieldAt(s, 5) > 59 \/ FieldAt(s, 8) > 59

\* C12: a filtered line whose marker has fields outside the calendar range
\* is a timestamped line: its fields are parsed as written, its dedup key
\* is the text after the marker, its time of day is hours*3600 +
\* minutes*60 + seconds seconds after the start of the base day, it
\* resolves to that plus whole days, and the output stays ordered by the
\* resolved values.
C12_OutOfRangeFieldsAccepted ==
    pc \in {"pass2", "done"} =>
        /\ \A n \in Filtered :
              OutOfRange(parsedLines[n].fullLine) =>
                  /\ parsedLines[n].timestampParts = FieldsOf(parsedLines[n].fullLine)
                  /\ KeyOf(n) = Trim(SubSeq(parsedLines[n].fullLine, 11,
                                            Len(parsedLines[n].fullLine)))
        /\ item >= 1 /\ OutOfRange(parsedLines[item].fullLine) =>
              /\ lastTimeOfDayValue
                   = BaseDate + SecondsOfDay(FieldsOf(parsedLines[item].fullLine))
              /\ resolved[item] = lastTimeOfDayValue + currentDayOffset * DayLength
              /\ resolved[item] # Epoch
        /\ Returned =>
              /\ \A n \in Filtered :
                    OutOfRange(parsedLines[n].fullLine) =>
                        \E m \in 1..Len(OutputLines) :
                            ContentForDeduplication(OutputLines[m]) = KeyOf(n)
              /\ \A m \in 1..(Len(sortableItems) - 1) :
                    OutOfRange(sortableItems[m].fullLine)
                      \/ OutOfRange(sortableItems[m + 1].fullLine)
                    => sortableItems[m].timestamp <= sortableItems[m + 1].timestamp

\* C12 witness: the call has returned a line with hour 99 and minute 61
\* after a line of the calendar range.
C12_Witness ==
    /\ Returned
    /\ Len(sortableItems) = 2
    /\ ~OutOfRange(sortableItems[1].fullLine)
    /\ MarkerShaped(sortableItems[1].fullLine)
    /\ FieldsOf(sortableItems[2].fullLine) = <<99, 61, 7>>
    /\ sortableItems[2].timestamp = BaseDate + 99 * 3600 + 61 * 60 + 7

\* the white space of String.prototype.trim, line feed included
Blank == {" ", "\t", "\n", "\r"}

\* the places of the line feeds of the returned text
LineFeeds == {n \in 1..Len(result) : result[n] = "\n"}

\* the pieces of a text between its line feeds
RECURSIVE Segments(_)
Segments(s) ==
    IF \A n \in 1..Len(s) : s[n] # "\n" THEN <<s>>
    ELSE LET at == CHOOSE n \in 1..Len(s) :
                      s[n] = "\n" /\ \A m \in 1..(n - 1) : s[m] # "\n"
         IN  <<SubSeq(s, 1, at - 1)>> \o Segments(SubSeq(s, at + 1, Len(s)))

\* C13: the returned text is the retained entries' trimmed input lines,
\* marker included and unchanged, separated by single line feeds: no blank
\* line, no white space at either end of a line, no trailing line feed,
\* and nothing of the resolved timestamp.
C13_OutputIsTheRetainedLinesJoined ==
    Returned =>
        /\ sortableItems = <<>> <=> result = <<>>
        /\ result # <<>> =>
              /\ Cardinality(LineFeeds) = Len(sortableItems) - 1
              /\ result[1] \notin Blank
              /\ result[Len(result)] \notin Blank
              /\ \A n \in LineFeeds :
                    result[n - 1] \notin Blank /\ result[n + 1] \notin Blank
              /\ \A m \in 1..Len(sortableItems) :
                    /\ Segments(result)[m] = sortableItems[m].fullLine
                    /\ \E n \in Filtered :
                          /\ resolved[n] = sortableItems[m].timestamp
                          /\ Segments(result)[m]
                               = Trim(lines[parsedLines[n].originalIndex + 1])

\* C13 witness: a call has returned three lines, two of them with a
\* marker, from input lines with white space around them.
C13_Witness ==
    /\ Returned
    /\ Len(sortableItems) = 3
    /\ Cardinality(LineFeeds) = 2
    /\ ~MarkerShaped(sortableItems[1].fullLine)
    /\ MarkerShaped(sortableItems[2].fullLine)
    /\ MarkerShaped(sortableItems[3].fullLine)
    /\ \E n \in 1..Len(lines) :
          /\ lines[n] # Trim(lines[n])
          /\ \E m \in 1..3 : sortableItems[m].fullLine = Trim(lines[n])

\* C14: a step of the inference pass over a timestamped line adds one to
\* the day-offset counter exactly when a previous time of day is set and
\* the line's time of day is strictly earlier, and resolves the line to
\* its time of day plus the counter times 86400 seconds; a step over a line
\* without a marker resolves it to the epoch value and resets the counter
\* to zero and the last time of day to unset.  No other step of the pass
\* changes the counter.
C14_DayOffsetSteps ==
    [][ pc = "pass2" =>
          IF item' = item + 1
          THEN LET parts == parsedLines[item + 1].timestampParts
               IN  IF parts # <<>>
                   THEN /\ currentDayOffset' =
                             IF /\ lastTimeOfDayValue # Null
                                /\ BaseDate + SecondsOfDay(parts) < lastTimeOfDayValue
                             THEN currentDayOffset + 1
                             ELSE currentDayOffset
                        /\ lastTimeOfDayValue' = BaseDate + SecondsOfDay(parts)
                        /\ resolved'[item'] =
                             BaseDate + SecondsOfDay(parts) + currentDayOffset' * 86400
                   ELSE /\ currentDayOffset' = 0
                        /\ lastTimeOfDayValue' = Null
                        /\ resolved'[item'] = Epoch
          ELSE /\ currentDayOffset' = currentDayOffset
               /\ lastTimeOfDayValue' = lastTimeOfDayValue
               /\ resolved' = resolved ]_vars

\* C14 witness: the pass has seen twice the same time of day without an
\* increment and then an earlier time of day, with an increment.
C14_Witness ==
    /\ pc = "pass2"
    /\ item = 3
    /\ resolved[1] = resolved[2]
    /\ resolved[1] # Epoch
    /\ currentDayOffset = 1
    /\ lastTimeOfDayValue < resolved[1]

\* a text with a character that is not white space
NotBlank(s) == \E n \in 1..Len(s) : s[n] \notin Blank

\* C15: a click on the copy button invokes the copy function if and only
\* if the applicant name and the chatlog are both non-empty after trimming;
\* it sets the error message of each blank field and clears the error of
\* each field that is not blank; nothing but a click invokes the copy
\* function.
C15_CopyOnlyWhenBothFilled ==
    [][ IF clicks' = clicks + 1
        THEN /\ copyCalls' \in {copyCalls, copyCalls + 1}
             /\ copyCalls' = copyCalls + 1
                  <=> NotBlank(applicantValue) /\ NotBlank(chatlogValue)
             /\ applicantError' =
                  IF NotBlank(applicantValue) THEN "null"
                  ELSE "Applicant name cannot be empty."
             /\ chatlogError' =
                  IF NotBlank(chatlogValue) THEN "null"
                  ELSE "Chatlog cannot be empty."
        ELSE copyCalls' = copyCalls ]_vars

\* C15 witness: a click has copied, and an earlier click on a blank
\* chatlog has not.
C15_Witness ==
    /\ clicks = 2
    /\ copyCalls = 1
    /\ applicantError = "null"
    /\ chatlogError = "null"
    /\ NotBlank(applicantValue)
    /\ NotBlank(chatlogValue)

\* fields of the calendar range
InRange(parts) == parts[1] < 24 /\ parts[2] < 60 /\ parts[3] < 60

\* every timestamped filtered line has fields of the calendar range
AllInRange ==
    \A n \in Filtered :
        parsedLines[n].timestampParts = <<>> \/ InRange(parsedLines[n].timestampParts)

\* every filtered line is timestamped, and no two at the same time of day
DistinctTimesOfDay ==
    \A n, m \in Filtered :
        /\ parsedLines[n].timestampParts # <<>>
        /\ n # m => SecondsOfDay(parsedLines[n].timestampParts)
                      # SecondsOfDay(parsedLines[m].timestampParts)

PassingInputLines ==
    {n \in 1..Len(lines) :
        /\ NotBlank(lines[n])
        /\ RegExpTest(searchParameter, Trim(lines[n]))}

\* the dedup key of input line n
InputKey(n) == ContentForDeduplication(Trim(lines[n]))

\* C17: no message is lost: the output has as many lines as there are
\* distinct dedup keys among the non-blank input lines that pass the
\* filter, and for each such input line exactly one output line has its
\* dedup key.
C17_OneOutputLinePerKey ==
    Returned =>
        /\ Len(OutputLines) = Cardinality({InputKey(n) : n \in PassingInputLines})
        /\ \A n \in PassingInputLines :
              Cardinality({m \in 1..Len(OutputLines) :
                              ContentForDeduplication(OutputLines[m]) = InputKey(n)}) = 1

\* C17 witness: a call has returned two lines for three passing input
\* lines, two of which share their dedup key under different markers.
C17_Witness ==
    /\ Returned
    /\ round = 1
    /\ Cardinality(PassingInputLines) = 3
    /\ Len(OutputLines) = 2
    /\ \E n, m \in PassingInputLines :
          InputKey(n) = InputKey(m) /\ Trim(lines[n]) # Trim(lines[m])

\* the text after the marker of a line that begins with one
AfterMarker(s) == Trim(SubSeq(s, 11, Len(s)))

\* filtered line a has no marker and is, as a whole, what follows the
\* marker of filtered line b
SameContentUntimed(a, b) ==
    /\ ~MarkerShaped(parsedLines[a].fullLine)
    /\ MarkerShaped(parsedLines[b].fullLine)
    /\ parsedLines[a].fullLine = AfterMarker(parsedLines[b].fullLine)

\* C18: a filtered line without a marker whose whole text is the content
\* after the marker of a timestamped filtered line has that line's dedup
\* key; the output has the line without a marker and not the timestamped
\* one, whatever their order in the input; and every output line without a
\* marker comes before every output line with one.
C18_UntimedLineWins ==
    Returned =>
        /\ \A a, b \in Filtered :
              SameContentUntimed(a, b) =>
                  /\ KeyOf(a) = KeyOf(b)
                  /\ \E m \in 1..Len(sortableItems) :
                        /\ sortableItems[m].fullLine = parsedLines[a].fullLine
                        /\ sortableItems[m].timestamp = Epoch
                  /\ \A m \in 1..Len(OutputLines) :
                        OutputLines[m] # parsedLines[b].fullLine
        /\ \A m, k \in 1..Len(OutputLines) :
              MarkerShaped(OutputLines[m]) /\ ~MarkerShaped(OutputLines[k]) => k < m

\* C18 witness: the timestamped line came first in the input, the line
\* without a marker with the same content was kept, ahead of another
\* timestamped line.
C18_Witness ==
    /\ Returned
    /\ Len(OutputLines) = 2
    /\ ~MarkerShaped(OutputLines[1])
    /\ MarkerShaped(OutputLines[2])
    /\ \E a, b \in Filtered :
          /\ SameContentUntimed(a, b)
          /\ parsedLines[b].originalIndex < parsedLines[a].originalIndex

====
